---- MODULE Spec2Model ----
(***************************************************************************)
(* scripts/run_dpo.py: evaluation of a DPO reward model on preference      *)
(* pairs.  One run of main() is a straight-line program: parse arguments,  *)
(* load tokenizer, dataset and models, score the dataset batch by batch,   *)
(* group the 0/1 results per subset, write results/metrics.json and push   *)
(* it to the results repository.  The file system and the remote           *)
(* repository outlive a run; everything else is local to it.               *)
(***************************************************************************)
EXTENDS Integers, Sequences, FiniteSets, TLC

\* ---------------------------------------------------------------- bounds
MaxN == 2
MaxBatch == 2
MaxRunsN == 1
MaxRuns == 2
MaxBatchN == 3

\* ------------------------------------------------------- input universes
Models == {"gpt2-dummy-rm", "org/other-rm"}
ChatTemplates == {"tulu", "zephyr"}
Subsets == {"alpacaeval", "model", "xstest"}
Texts == {0, 1}
RunsRows == {[subset |-> "alpacaeval", text_chosen |-> 1, text_rejected |-> 0],
             [subset |-> "xstest", text_chosen |-> 0, text_rejected |-> 1]}

\* every key the output can hold, in the order Python compares strings
KeyOrder == <<"alpacaeval", "chat_template", "model", "xstest">>

VARIABLES
    args,             \* the parsed command line
    hub,              \* the evaluation data behind load_eval_dataset, by core_set
    pc,               \* position of main()
    dataset,          \* [core_set, rows]: what load_eval_dataset returned
    subsets,          \* the subset column, returned next to the dataset
    dataloader,       \* the batches the DataLoader yields (lists of row indices)
    step,             \* batches consumed by the loop
    rewards_chosen,   \* what the last inference_step returned
    rewards_rejected,
    results,          \* the 0/1 list
    scored,           \* history: row indices handed to inference_step, in order
    results_grouped,  \* the dict that is dumped
    dumped,           \* json.dumps(...), as the sorted list of its members
    fs,               \* the directory results/ and the file results/metrics.json
    remote,           \* the files of the dataset repository EVAL_REPO, by path_in_repo
    uploads,          \* history: the path_in_repo of each upload_file call of this run
    failed_at,        \* history: the step that raised, or "none"
    run,              \* history: number of the current run
    fs0,              \* history: the file system when this run started
    prev              \* history: the last run that finished

vars == <<args, hub, pc, dataset, subsets, dataloader, step, rewards_chosen,
          rewards_rejected, results, scored, results_grouped, dumped, fs,
          remote, uploads, failed_at, run, fs0, prev>>

locals == <<dataset, subsets, dataloader, step, rewards_chosen,
            rewards_rejected, results, scored, results_grouped, dumped>>

\* ------------------------------------------------------------ helpers
SeqsUpTo(X, n) == UNION {[1..k -> X] : k \in 0..n}

Rows(S) == [subset : S, text_chosen : Texts, text_rejected : Texts]

Min(a, b) == IF a < b THEN a ELSE b

RECURSIVE GCD(_, _)
GCD(a, b) == IF b = 0 THEN a ELSE GCD(b, a % b)

\* a JSON string value
Str(s) == [t |-> "str", s |-> s, n |-> 0, d |-> 1]

\* num_correct / num_total: the quotient, as the fraction in lowest terms
TrueDiv(n, d) == [t |-> "num", s |-> "", n |-> n \div GCD(n, d), d |-> d \div GCD(n, d)]

\* get_args: every command line the parser accepts, batch sizes up to b
ArgsUpTo(M, C, b) ==
    [model : M, chat_template : C, do_not_save : BOOLEAN,
     batch_size : 1..b, pref_sets : BOOLEAN]

NoRewards == [kind |-> "none", items |-> <<>>]
NoFs == [dir |-> FALSE, exists |-> FALSE, open |-> FALSE, content |-> <<>>]
NoPrev == [valid |-> FALSE, args |-> [model |-> "", chat_template |-> "",
           do_not_save |-> FALSE, batch_size |-> 1, pref_sets |-> FALSE],
           results |-> <<>>, dumped |-> <<>>]
NoDataset == [core_set |-> TRUE, rows |-> <<>>]

\* ----------------------------------------- external collaborators (herm)
\* load_eval_dataset(core_set=...): the dataset of that kind, with the
\* subset column split off (keep_columns leaves the two texts)
load_eval_dataset(core_set) ==
    [dataset |-> [core_set |-> core_set,
                  rows |-> [i \in DOMAIN hub[core_set] |->
                              [text_chosen |-> hub[core_set][i].text_chosen,
                               text_rejected |-> hub[core_set][i].text_rejected]]],
     subsets |-> [i \in DOMAIN hub[core_set] |-> hub[core_set][i].subset]]

\* DPOInference.inference_step: one reward per row of the batch, in batch
\* order, as a list of {"label", "score"} dicts or as a tensor.  A completion
\* stands for the implicit reward the policy/reference pair assigns to it
\* (tokenize_row and the two forward passes are not modelled).
inference_step(batch, kind) ==
    LET wrap(r) == IF kind = "dicts" THEN [label |-> "LABEL_1", score |-> r]
                   ELSE r
    IN  [chosen   |-> [kind |-> kind,
                       items |-> [j \in DOMAIN batch |-> wrap(batch[j].text_chosen)]],
         rejected |-> [kind |-> kind,
                       items |-> [j \in DOMAIN batch |-> wrap(batch[j].text_rejected)]]]

\* ------------------------------------------------------------ DataLoader
\* the batch sampler: fills a batch up to batch_size, yields it, and at the
\* end yields the partial batch unless drop_last
RECURSIVE BatchSampler(_, _, _, _, _)
BatchSampler(idxs, bs, drop_last, batch, acc) ==
    IF idxs = <<>>
    THEN IF Len(batch) > 0 /\ ~drop_last THEN Append(acc, batch) ELSE acc
    ELSE LET b2 == Append(batch, Head(idxs))
         IN  IF Len(b2) = bs
             THEN BatchSampler(Tail(idxs), bs, drop_last, <<>>, Append(acc, b2))
             ELSE BatchSampler(Tail(idxs), bs, drop_last, b2, acc)

DataLoaderDropLast(n, bs) == BatchSampler([i \in 1..n |-> i], bs, TRUE, <<>>, <<>>)

\* DataLoader(tokenized_dataset, batch_size=BATCH_SIZE, shuffle=False, drop_last=False)
DataLoader(n, bs) == BatchSampler([i \in 1..n |-> i], bs, FALSE, <<>>, <<>>)

\* ------------------------------------------------------- the batch loop
\* lines 153-159: the scores of one side of a batch
Scores(rewards) ==
    IF rewards.kind = "dicts"
    THEN [j \in DOMAIN rewards.items |-> rewards.items[j].score]
    ELSE rewards.items

CompareGeq(chosen, rejected) == IF chosen >= rejected THEN 1 ELSE 0

\* line 162: 1 if chosen > rejected else 0
Compare(chosen, rejected) == IF chosen > rejected THEN 1 ELSE 0

BatchResultsHead(score_chosen, score_rejected) ==
    [j \in 1..Min(Len(score_chosen), Len(score_rejected)) |->
        Compare(score_chosen[1], score_rejected[1])]

\* lines 161-164: the zip over both score lists
BatchResults(score_chosen, score_rejected) ==
    [j \in 1..Min(Len(score_chosen), Len(score_rejected)) |->
        Compare(score_chosen[j], score_rejected[j])]

\* --------------------------------------------------------------- grouping
\* np.unique(subsets): the distinct labels, sorted
Unique(labels) ==
    SelectSeq(KeyOrder, LAMBDA k : \E i \in DOMAIN labels : labels[i] = k)

FilterResultsAll(res, labels, s) == res

\* out_dataset.filter(subset == s)["results"]
FilterResults(res, labels, s) ==
    LET keep == SelectSeq([i \in DOMAIN labels |-> i], LAMBDA i : labels[i] = s)
    IN  [j \in DOMAIN keep |-> res[keep[j]]]

RECURSIVE Sum(_)
Sum(xs) == IF xs = <<>> THEN 0 ELSE Head(xs) + Sum(Tail(xs))

\* d[k] = v on a dict
SetItem(d, k, v) == [x \in DOMAIN d \cup {k} |-> IF x = k THEN v ELSE d[x]]

\* lines 179-184: the loop over present_subsets
RECURSIVE GroupLoop(_, _, _, _)
GroupLoop(d, present, res, labels) ==
    IF present = <<>> THEN d
    ELSE LET subset_results == FilterResults(res, labels, Head(present))
             num_correct == Sum(subset_results)
             num_total == Len(subset_results)
         IN  GroupLoop(SetItem(d, Head(present), TrueDiv(num_correct, num_total)),
                       Tail(present), res, labels)

\* lines 174-184
Grouped(a, res, labels) ==
    GroupLoop(SetItem(SetItem(<<>>, "model", Str(a.model)),
                      "chat_template", Str(a.chat_template)),
              Unique(labels), res, labels)

\* json.dumps(results_grouped, sort_keys=True): the members in key order
Dumps(d) ==
    LET keys == SelectSeq(KeyOrder, LAMBDA k : k \in DOMAIN d)
    IN  [i \in DOMAIN keys |-> [k |-> keys[i], v |-> d[keys[i]]]]

\* ---------------------------------------------------------------- upload
\* lines 207, 210
PathInRepo(a) ==
    (IF ~a.pref_sets THEN "eval-set/" ELSE "pref-sets/") \o a.model \o ".json"

\* ------------------------------------------------------------------ Init
StartOfRun ==
    /\ pc = "tokenizer"
    /\ dataset = NoDataset
    /\ subsets = <<>>
    /\ dataloader = <<>>
    /\ step = 0
    /\ rewards_chosen = NoRewards
    /\ rewards_rejected = NoRewards
    /\ results = <<>>
    /\ scored = <<>>
    /\ results_grouped = <<>>
    /\ dumped = <<>>
    /\ uploads = <<>>
    /\ failed_at = "none"

\* one run on a fresh checkout, over every small dataset of its kind
Init ==
    /\ args \in ArgsUpTo(Models, ChatTemplates, MaxBatch)
    /\ \E d \in SeqsUpTo(Rows(Subsets), MaxN) :
          hub = [c \in BOOLEAN |-> IF c = ~args.pref_sets THEN d ELSE <<>>]
    /\ StartOfRun
    /\ fs = NoFs
    /\ fs0 = NoFs
    /\ remote = [p \in {} |-> <<>>]
    /\ run = 1
    /\ prev = NoPrev

\* several runs against the same evaluation data
InitRuns ==
    /\ args \in ArgsUpTo(Models, {"tulu"}, MaxBatch)
    /\ hub \in [BOOLEAN -> SeqsUpTo(RunsRows, MaxRunsN)]
    /\ StartOfRun
    /\ fs = NoFs
    /\ fs0 = NoFs
    /\ remote = [p \in {} |-> <<>>]
    /\ run = 1
    /\ prev = NoPrev

\* the same evaluation run at several batch sizes; nothing is uploaded
InitBatch ==
    /\ args \in {a \in ArgsUpTo(Models, {"tulu"}, MaxBatch) : a.do_not_save}
    /\ \E d \in SeqsUpTo(RunsRows, MaxBatchN) :
          hub = [c \in BOOLEAN |-> IF c = ~args.pref_sets THEN d ELSE <<>>]
    /\ StartOfRun
    /\ fs = NoFs
    /\ fs0 = NoFs
    /\ remote = [p \in {} |-> <<>>]
    /\ run = 1
    /\ prev = NoPrev

\* --------------------------------------------------------------- actions
\* lines 83-92
LoadTokenizer ==
    /\ pc = "tokenizer"
    /\ pc' = "dataset"
    /\ UNCHANGED <<args, hub, locals, fs, remote, uploads, failed_at, run, fs0, prev>>

LoadDatasetNoNot ==
    /\ pc = "dataset"
    /\ LET r == load_eval_dataset(args.pref_sets)
       IN  /\ dataset' = r.dataset
           /\ subsets' = r.subsets
    /\ pc' = "model"
    /\ UNCHANGED <<args, hub, dataloader, step, rewards_chosen, rewards_rejected,
                   results, scored, results_grouped, dumped, fs, remote, uploads,
                   failed_at, run, fs0, prev>>

\* lines 93-99
LoadDataset ==
    /\ pc = "dataset"
    /\ LET r == load_eval_dataset(~args.pref_sets)
       IN  /\ dataset' = r.dataset
           /\ subsets' = r.subsets
    /\ pc' = "model"
    /\ UNCHANGED <<args, hub, dataloader, step, rewards_chosen, rewards_rejected,
                   results, scored, results_grouped, dumped, fs, remote, uploads,
                   failed_at, run, fs0, prev>>

\* lines 104-126
LoadModels ==
    /\ pc = "model"
    /\ pc' = "dataloader"
    /\ UNCHANGED <<args, hub, locals, fs, remote, uploads, failed_at, run, fs0, prev>>

\* lines 128-145
MakeDataLoader ==
    /\ pc = "dataloader"
    /\ dataloader' = DataLoader(Len(dataset.rows), args.batch_size)
    /\ results' = <<>>
    /\ step' = 0
    /\ pc' = "loop"
    /\ UNCHANGED <<args, hub, dataset, subsets, rewards_chosen, rewards_rejected,
                   scored, results_grouped, dumped, fs, remote, uploads,
                   failed_at, run, fs0, prev>>

\* lines 146-164: one iteration of the loop
InferenceStep ==
    /\ pc = "loop"
    /\ step < Len(dataloader)
    /\ \E kind \in {"dicts", "tensor"} :
          LET idxs == dataloader[step + 1]
              batch == [j \in DOMAIN idxs |-> dataset.rows[idxs[j]]]
              r == inference_step(batch, kind)
          IN  /\ rewards_chosen' = r.chosen
              /\ rewards_rejected' = r.rejected
              /\ results' = results \o BatchResults(Scores(r.chosen), Scores(r.rejected))
              /\ scored' = scored \o idxs
    /\ step' = step + 1
    /\ UNCHANGED <<args, hub, pc, dataset, subsets, dataloader, results_grouped,
                   dumped, fs, remote, uploads, failed_at, run, fs0, prev>>

\* the dataloader is exhausted; the rewards of the last batch are dead
EndLoop ==
    /\ pc = "loop"
    /\ step = Len(dataloader)
    /\ rewards_chosen' = NoRewards
    /\ rewards_rejected' = NoRewards
    /\ pc' = "group"
    /\ UNCHANGED <<args, hub, dataset, subsets, dataloader, step, results, scored,
                   results_grouped, dumped, fs, remote, uploads, failed_at, run,
                   fs0, prev>>

\* lines 170-184
Group ==
    /\ pc = "group"
    /\ results_grouped' = Grouped(args, results, subsets)
    /\ pc' = "dump"
    /\ UNCHANGED <<args, hub, dataset, subsets, dataloader, step, rewards_chosen,
                   rewards_rejected, results, scored, dumped, fs, remote,
                   uploads, failed_at, run, fs0, prev>>

\* lines 190-193
Dump ==
    /\ pc = "dump"
    /\ dumped' = Dumps(results_grouped)
    /\ pc' = "makedirs"
    /\ UNCHANGED <<args, hub, dataset, subsets, dataloader, step, rewards_chosen,
                   rewards_rejected, results, scored, results_grouped, fs, remote,
                   uploads, failed_at, run, fs0, prev>>

\* lines 195-196
MakeDirs ==
    /\ pc = "makedirs"
    /\ fs' = [fs EXCEPT !.dir = TRUE]
    /\ pc' = "remove"
    /\ UNCHANGED <<args, hub, locals, remote, uploads, failed_at, run, fs0, prev>>

KeepOld ==
    /\ pc = "remove"
    /\ pc' = "open"
    /\ UNCHANGED <<args, hub, locals, fs, remote, uploads, failed_at, run, fs0, prev>>

\* lines 198-200
RemoveOld ==
    /\ pc = "remove"
    /\ fs' = IF fs.exists THEN [fs EXCEPT !.exists = FALSE, !.content = <<>>] ELSE fs
    /\ pc' = "open"
    /\ UNCHANGED <<args, hub, locals, remote, uploads, failed_at, run, fs0, prev>>

\* line 202: open(path, "w") creates or truncates
OpenFile ==
    /\ pc = "open"
    /\ fs.dir
    /\ fs' = [fs EXCEPT !.exists = TRUE, !.open = TRUE, !.content = <<>>]
    /\ pc' = "write"
    /\ UNCHANGED <<args, hub, locals, remote, uploads, failed_at, run, fs0, prev>>

\* line 203 and the end of the with block: write, flush, close
WriteFile ==
    /\ pc = "write"
    /\ fs.open
    /\ fs' = [fs EXCEPT !.content = fs.content \o dumped, !.open = FALSE]
    /\ pc' = "upload"
    /\ UNCHANGED <<args, hub, locals, remote, uploads, failed_at, run, fs0, prev>>

UploadInverted ==
    /\ pc = "upload"
    /\ IF args.do_not_save
       THEN /\ fs.exists
            /\ remote' = SetItem(remote, PathInRepo(args), fs.content)
            /\ uploads' = Append(uploads, PathInRepo(args))
       ELSE UNCHANGED <<remote, uploads>>
    /\ pc' = "done"
    /\ UNCHANGED <<args, hub, locals, fs, failed_at, run, fs0, prev>>

\* lines 205-215
Upload ==
    /\ pc = "upload"
    /\ IF ~args.do_not_save
       THEN /\ fs.exists
            /\ remote' = SetItem(remote, PathInRepo(args), fs.content)
            /\ uploads' = Append(uploads, PathInRepo(args))
       ELSE UNCHANGED <<remote, uploads>>
    /\ pc' = "done"
    /\ UNCHANGED <<args, hub, locals, fs, failed_at, run, fs0, prev>>

\* the steps that call into a library or the operating system
Raising == {"tokenizer", "dataset", "model", "dataloader", "loop",
            "makedirs", "remove", "open", "upload"}

\* the process is gone: of its memory only the dumped text is kept, as
\* history, to compare the file with
Exit ==
    /\ pc' = "aborted"
    /\ dataset' = NoDataset
    /\ subsets' = <<>>
    /\ dataloader' = <<>>
    /\ step' = 0
    /\ rewards_chosen' = NoRewards
    /\ rewards_rejected' = NoRewards
    /\ results' = <<>>
    /\ scored' = <<>>
    /\ results_grouped' = <<>>
    /\ UNCHANGED dumped

RaiseAndGoOn ==
    /\ pc \in Raising
    /\ pc = "loop" => step < Len(dataloader)
    /\ pc = "remove" => fs.exists
    /\ pc = "upload" => ~args.do_not_save
    /\ failed_at' = pc
    /\ pc' = IF pc = "upload" THEN "done" ELSE "upload"
    /\ UNCHANGED <<args, hub, locals, fs, remote, uploads, run, fs0, prev>>

\* an exception leaves main(): nothing catches it
Raise ==
    /\ pc \in Raising
    /\ pc = "loop" => step < Len(dataloader)
    /\ pc = "remove" => fs.exists
    /\ pc = "upload" => ~args.do_not_save
    /\ failed_at' = pc
    /\ Exit
    /\ UNCHANGED <<args, hub, fs, remote, uploads, run, fs0, prev>>

\* f.write raises: the with block closes the file on whatever reached it
RaiseInWrite ==
    /\ pc = "write"
    /\ \E k \in 0..Len(dumped) :
          fs' = [fs EXCEPT !.content = fs.content \o SubSeq(dumped, 1, k),
                           !.open = FALSE]
    /\ failed_at' = pc
    /\ Exit
    /\ UNCHANGED <<args, hub, remote, uploads, run, fs0, prev>>

\* a fresh process: lines 60-61
Enter ==
    /\ pc' = "tokenizer"
    /\ dataset' = NoDataset
    /\ subsets' = <<>>
    /\ dataloader' = <<>>
    /\ step' = 0
    /\ rewards_chosen' = NoRewards
    /\ rewards_rejected' = NoRewards
    /\ results' = <<>>
    /\ scored' = <<>>
    /\ results_grouped' = <<>>
    /\ dumped' = <<>>
    /\ uploads' = <<>>
    /\ failed_at' = "none"
    /\ run' = run + 1
    /\ fs0' = fs
    /\ UNCHANGED <<hub, fs, remote>>

\* the script is started again on the same machine, with any arguments
Restart ==
    /\ pc \in {"done", "aborted"}
    /\ run < MaxRuns
    /\ args' \in ArgsUpTo(Models, {args.chat_template}, MaxBatch)
    /\ Enter
    /\ UNCHANGED prev

\* the script is started again with another --batch_size and nothing else changed
Rerun ==
    /\ pc = "done"
    /\ run < MaxRuns
    /\ \E b \in (1..MaxBatch) \ {args.batch_size} :
          args' = [args EXCEPT !.batch_size = b]
    /\ prev' = [valid |-> TRUE, args |-> args, results |-> results, dumped |-> dumped]
    /\ Enter

Run ==
    \/ LoadTokenizer
    \/ LoadDataset
    \/ LoadModels
    \/ MakeDataLoader
    \/ InferenceStep
    \/ EndLoop
    \/ Group
    \/ Dump
    \/ MakeDirs
    \/ RemoveOld
    \/ OpenFile
    \/ WriteFile
    \/ Upload

Next == Run

NextRuns == Run \/ Raise \/ RaiseInWrite \/ Restart

NextBatch == Run \/ Rerun

Spec == Init /\ [][Next]_vars

SpecRuns == InitRuns /\ [][NextRuns]_vars

SpecBatch == InitBatch /\ [][NextBatch]_vars

\* ============================================================== claims
\* the records of the dataset this run evaluates, as the hub holds them
Records == hub[~args.pref_sets]

\* the run has written and closed its results file
Written == pc \in {"upload", "done"}

\* C1: in a run where nothing raises the results file is uploaded exactly
\* once without --do_not_save and never with it, and an upload happens only
\* once results/metrics.json holds the whole dumped text and is closed.
C1_UploadOnceAfterWrite ==
    /\ Len(uploads) <= 1
    /\ args.do_not_save => uploads = <<>>
    /\ pc = "done" => Len(uploads) = (IF args.do_not_save THEN 0 ELSE 1)
    /\ uploads # <<>> => fs.exists /\ ~fs.open /\ fs.content = dumped
                         /\ remote[uploads[1]] = dumped

C1_Witness ==
    /\ pc = "done"
    /\ ~args.do_not_save
    /\ Len(uploads) = 1
    /\ Len(fs.content) > 2

\* C2: every subset label of the dataset is a key of the written JSON whose
\* value is (records of the subset with result 1) / (records of the subset),
\* and a label the dataset does not have gets no accuracy in the JSON.
C2_SubsetAccuracy ==
    Written =>
        /\ \A i, j \in DOMAIN fs.content :
              fs.content[i].k = fs.content[j].k => i = j
        /\ \A s \in Subsets :
              LET of_s == {i \in DOMAIN Records : Records[i].subset = s}
                  ones == {i \in of_s : results[i] = 1}
              IN  IF of_s # {}
                  THEN \E j \in DOMAIN fs.content :
                          /\ fs.content[j].k = s
                          /\ fs.content[j].v.t = "num"
                          /\ fs.content[j].v.d > 0
                          /\ fs.content[j].v.n * Cardinality(of_s)
                                = fs.content[j].v.d * Cardinality(ones)
                  ELSE ~\E j \in DOMAIN fs.content :
                          fs.content[j].k = s /\ fs.content[j].v.t = "num"

C2_Witness ==
    /\ pc = "done"
    /\ \E i, j \in DOMAIN Records :
          /\ Records[i].subset = "alpacaeval"
          /\ Records[j].subset = "xstest"
          /\ results[i] # results[j]

\* C3: whatever the subset labels of the dataset, the written JSON has the
\* key "model" with the value of --model and the key "chat_template" with
\* the value of --chat_template.
C3_MetadataKept ==
    Written =>
        /\ \E j \in DOMAIN fs.content :
              fs.content[j].k = "model" /\ fs.content[j].v = Str(args.model)
        /\ \E j \in DOMAIN fs.content :
              /\ fs.content[j].k = "chat_template"
              /\ fs.content[j].v = Str(args.chat_template)

\* C4: for each record of a batch the recorded result is 1 exactly when the
\* reward of the chosen completion is strictly greater than the reward of
\* the rejected one, 0 otherwise (ties included), for rewards returned as
\* dicts with a "score" and for rewards returned as a tensor.
C4_StrictlyGreater ==
    (pc = "loop" /\ step > 0) =>
        LET k == Len(rewards_chosen.items)
            raw(r, j) == IF r.kind = "dicts" THEN r.items[j].score ELSE r.items[j]
        IN  /\ k = Len(dataloader[step])
            /\ Len(rewards_rejected.items) = k
            /\ Len(results) >= k
            /\ \A j \in 1..k :
                  LET res == results[Len(results) - k + j]
                  IN  /\ res \in {0, 1}
                      /\ res = 1 <=> raw(rewards_chosen, j) > raw(rewards_rejected, j)

C4_Witness ==
    /\ pc = "loop"
    /\ step > 0
    /\ rewards_chosen.kind = "dicts"
    /\ Len(rewards_chosen.items) = 2
    /\ rewards_chosen.items[1].score = rewards_rejected.items[1].score
    /\ rewards_chosen.items[2].score > rewards_rejected.items[2].score
    /\ results[Len(results) - 1] = 0
    /\ results[Len(results)] = 1

\* C5: nothing is recovered.  Once a step has raised the run is over; a step
\* before the write step that raises leaves the results file as the run found
\* it and uploads nothing; an upload that raises leaves the written file.
BeforeWrite == {"tokenizer", "dataset", "model", "dataloader", "loop"}

C5_NoRecovery ==
    failed_at # "none" =>
        /\ pc = "aborted"
        /\ uploads = <<>>
        /\ failed_at \in BeforeWrite => fs = fs0
        /\ failed_at = "upload" => fs.exists /\ ~fs.open /\ fs.content = dumped

C5_Witness ==
    /\ pc = "aborted"
    /\ failed_at = "upload"
    /\ fs.exists
    /\ Len(fs.content) > 2
    /\ fs # fs0

\* C6: the loop takes the batches in dataset order and ends after
\* ceil(N / batch_size) steps; every record is scored exactly once, so the
\* results list has length N and results[i] belongs to the i-th record.
Ceil(n, b) == (n + b - 1) \div b

C6_EveryRecordOnce ==
    LET N == Len(Records)
    IN  /\ pc = "loop" =>
              /\ Len(scored) = Min(step * args.batch_size, N)
              /\ scored = [i \in 1..Len(scored) |-> i]
              /\ Len(results) = Len(scored)
        /\ pc \in {"group", "dump", "makedirs", "remove", "open", "write",
                   "upload", "done"} =>
              /\ step = Ceil(N, args.batch_size)
              /\ scored = [i \in 1..N |-> i]
              /\ Len(results) = N
              /\ \A i \in 1..N :
                    results[i] = 1 <=> Records[i].text_chosen > Records[i].text_rejected

C6_Witness ==
    /\ pc = "group"
    /\ Len(Records) > args.batch_size
    /\ Len(Records) % args.batch_size # 0
    /\ step = 2
    /\ Len(results) = 3

\* C7: with rewards that depend on the record alone, a run gives the same
\* results list and the same output at every --batch_size: only the number
\* of inference steps differs.
C7_BatchSizeIrrelevant ==
    (pc = "done" /\ prev.valid) =>
        /\ prev.args = [args EXCEPT !.batch_size = prev.args.batch_size]
        /\ results = prev.results
        /\ dumped = prev.dumped
        /\ fs.content = prev.dumped

C7_Witness ==
    /\ pc = "done"
    /\ prev.valid
    /\ prev.args.batch_size # args.batch_size
    /\ Len(results) = 3
    /\ step # Ceil(3, prev.args.batch_size)
    /\ \E i, j \in DOMAIN results : results[i] # results[j]

\* C8: the dataset kind and the upload destination agree: without
\* --pref_sets the core set is loaded and the upload goes to
\* eval-set/<model>.json, with it the preference sets are loaded and the
\* upload goes to pref-sets/<model>.json.
C8_KindAndPrefixAgree ==
    pc \in {"model", "dataloader", "loop", "group", "dump", "makedirs", "remove",
            "open", "write", "upload", "done"} =>
        /\ dataset.core_set = ~args.pref_sets
        /\ dataset.rows = load_eval_dataset(dataset.core_set).dataset.rows
        /\ \A u \in DOMAIN uploads :
              uploads[u] = (IF dataset.core_set THEN "eval-set/" ELSE "pref-sets/")
                              \o args.model \o ".json"

C8_Witness ==
    /\ pc = "done"
    /\ args.pref_sets
    /\ ~dataset.core_set
    /\ uploads = <<"pref-sets/org/other-rm.json">>

\* C9: the write step removes the results file an earlier run left before it
\* writes, so after successful runs the file is exactly the JSON of the last
\* run, and that content is what the upload of that run sends.
C9_FileIsLastRun ==
    /\ pc = "open" => ~fs.exists
    /\ pc = "write" => fs.content = <<>>
    /\ Written => fs.exists /\ ~fs.open /\ fs.content = Dumps(results_grouped)
    /\ (pc = "done" /\ uploads # <<>>) => remote[uploads[1]] = Dumps(results_grouped)

C9_Witness ==
    /\ pc = "done"
    /\ run > 1
    /\ fs0.exists
    /\ fs0.content # <<>>
    /\ fs0.content # fs.content
    /\ uploads # <<>>
    /\ remote[uploads[1]] = fs.content

====
